---- MODULE Spec2Model ----
(***************************************************************************)
(* go-proc-sandbox: a process sandbox with three platform bodies           *)
(* (LinuxSandbox over cgroup v2, WindowsSandbox over job objects,          *)
(* DefaultSandbox over rlimits).  The model covers the constructors, Run,  *)
(* Cleanup, and the part of the operating system and of os/exec that the   *)
(* code relies on: the clock, the contexts, the child and one descendant   *)
(* in its process group, the cgroup directory and the job handle table.    *)
(*                                                                         *)
(* Time is counted in seconds.  The host calls its sandboxes from one      *)
(* goroutine: one Run or Cleanup is in progress at a time.                 *)
(***************************************************************************)
EXTENDS Integers, FiniteSets, Sequences, TLC

\* ------------------------------------------------------------------ bounds
\* The clock runs to MaxTime, and past it only while a deadline is pending.
MaxTime == 2
\* Job handle values the kernel hands out: 1..MaxHandles.
MaxHandles == 2

\* ------------------------------------------------------- program constants
DefaultCPULimit == 100
DefaultMemoryLimit == 536870912
DefaultTimeout == 30
DefaultMaxProcesses == 50

Sandboxes == {1, 2}
Platforms == {"linux", "windows", "posix"}
Nil == "nil"

\* --------------------------------------------------------- sandbox.Config
\* The fields of Config that the three bodies read.  Stdout is "nil" (not
\* bound) or "writer" (an io.Writer that is no *os.File, which os/exec
\* serves through a pipe and a copying goroutine).
MkConfig(cpu, mem, timeout, procs, out) ==
    [CPULimit |-> cpu, MemoryLimit |-> mem, Timeout |-> timeout,
     MaxProcesses |-> procs, Stdout |-> out]

ZeroConfig == MkConfig(0, 0, 0, 0, Nil)

\* The defaulting block shared, line for line, by the three constructors.
SetDefaultsNoCPU(c) ==
    [c EXCEPT !.MemoryLimit = IF @ = 0 THEN DefaultMemoryLimit ELSE @,
              !.Timeout = IF @ = 0 THEN DefaultTimeout ELSE @,
              !.MaxProcesses = IF @ = 0 THEN DefaultMaxProcesses ELSE @]

\* SetDefaults replacing every field that is not positive.
SetDefaultsNonPositive(c) ==
    [c EXCEPT !.CPULimit = IF @ <= 0 THEN DefaultCPULimit ELSE @,
              !.MemoryLimit = IF @ <= 0 THEN DefaultMemoryLimit ELSE @,
              !.Timeout = IF @ <= 0 THEN DefaultTimeout ELSE @,
              !.MaxProcesses = IF @ <= 0 THEN DefaultMaxProcesses ELSE @]

SetDefaults(c) ==
    [c EXCEPT !.CPULimit = IF @ = 0 THEN DefaultCPULimit ELSE @,
              !.MemoryLimit = IF @ = 0 THEN DefaultMemoryLimit ELSE @,
              !.Timeout = IF @ = 0 THEN DefaultTimeout ELSE @,
              !.MaxProcesses = IF @ = 0 THEN DefaultMaxProcesses ELSE @]

\* A caller's *Config argument: the nil pointer, or a pointer to cfg.
NilInput == [nil |-> TRUE, cfg |-> ZeroConfig]
Input(c) == [nil |-> FALSE, cfg |-> c]

\* if config == nil { config = &Config{} }, then the defaulting block.
NewLinuxSandbox(in) == SetDefaults(IF in.nil THEN ZeroConfig ELSE in.cfg)

NewWindowsSandbox(in) == SetDefaults(IF in.nil THEN ZeroConfig ELSE in.cfg)

NewDefaultSandbox(in) == SetDefaults(IF in.nil THEN ZeroConfig ELSE in.cfg)

newPlatformSandbox(p, in) ==
    CASE p = "linux" -> NewLinuxSandbox(in)
      [] p = "windows" -> NewWindowsSandbox(in)
      [] OTHER -> NewDefaultSandbox(in)

\* ------------------------------------------------------------------ state
VARIABLES
    platform,     \* the build target of the host program
    cgroup2,      \* /proc/mounts lists a cgroup2 filesystem
    now,          \* the wall clock, in seconds since the call in progress began
    input,        \* input[i]: the *Config passed to New for sandbox i
    constructed,  \* constructed[i]: New has returned sandbox i
    config,       \* s.config of sandbox i
    useCgroupV2,  \* s.useCgroupV2 (LinuxSandbox)
    cgroupPath,   \* s.cgroupPath (LinuxSandbox): "" or the path
    jobHandle,    \* s.jobHandle (WindowsSandbox): 0 or a handle value
    cgroupDir,    \* the directory /sys/fs/cgroup/go-proc-sandbox-<host pid>
    jobs,         \* the kernel's job handle table of the host process
    staleUse,     \* a handle value that designated no job was given to the kernel
    hostRlimit,   \* the resource limits of the host process
    self,         \* the sandbox whose Run or Cleanup is in progress, or 0
    pc,           \* the position of the call in progress
    result,       \* Run's *Result
    retErr,       \* the error Run or Cleanup returns ("" is nil)
    startTime,    \* Run's startTime
    parent,       \* the caller's context passed to Run
    ctx,          \* cmdCtx
    child,        \* cmd.Process and the process behind it
    desc,         \* a process the child forked into its process group
    lastCall,     \* the call that has just returned, nothing having happened since
    cleanupErr    \* the error the last Cleanup returned ("" is nil)

sandboxVars == <<input, constructed, config, useCgroupV2, cgroupPath, jobHandle>>
osVars == <<cgroupDir, jobs, staleUse, hostRlimit>>
runVars == <<result, startTime, parent, ctx, child, desc>>
vars == <<platform, cgroup2, now, sandboxVars, osVars, self, pc, retErr,
          runVars, lastCall, cleanupErr>>

\* The name setupCgroup derives from os.Getpid(): one per host process.
CgroupName == "/sys/fs/cgroup/go-proc-sandbox-pid"

Handles == 1..MaxHandles

\* &Result{}
ZeroResult ==
    [ExitCode |-> 0, ExecutionTime |-> 0, TimedOut |-> FALSE,
     MemoryExceeded |-> FALSE, Error |-> ""]

\* An absent cgroup directory; a limit file that was never written reads 0
\* here (the kernel's "max").
NoCgroupDir ==
    [exists |-> FALSE, memoryMax |-> 0, cpuMax |-> 0, pidsMax |-> 0,
     procs |-> {}, oomKill |-> 0]

\* A handle value that designates no job.
FreeJob == [open |-> FALSE, owner |-> 0]

NoContext == [active |-> FALSE, hasDeadline |-> FALSE, deadline |-> 0, err |-> ""]

NoProcess ==
    [state |-> "none", suspended |-> FALSE, sigkill |-> FALSE,
     how |-> "none", code |-> 0, killer |-> "none", job |-> 0,
     intime |-> FALSE]

\* lastCall when no call has just returned; rep tells that a Cleanup
\* directly follows a Cleanup of the same sandbox.
NoCall == [op |-> "none", sb |-> 0, rep |-> FALSE]

NoDesc == [state |-> "none", sigkill |-> FALSE, pipe |-> FALSE]

\* RLIMIT_AS / RLIMIT_DATA and RLIMIT_NPROC of the host; 0 is RLIM_INFINITY.
NoRlimit == [mem |-> 0, nproc |-> 0]

\* ----------------------------------------------------------------- inputs
\* Limit specifications of the running model: timeouts short enough for
\* the clock, one with Stdout bound to a writer, one with fields left zero.
RunInput1 == Input(MkConfig(50, 104857600, 1, 0, "writer"))
RunInput2 == Input(MkConfig(0, 0, 2, 10, Nil))

\* Limit specifications of the constructor model: nil, zero, in-range,
\* negative and out-of-range fields.
CfgInputs ==
    {NilInput} \cup
    {Input(MkConfig(cpu, mem, t, n, Nil)) :
        cpu \in {-1, 0, 1, 50, 100, 101}, mem \in {-1, 0, 1},
        t \in {-1, 0, 1}, n \in {-1, 0, 1}}

\* Exit statuses a child may report.
ExitCodes == {0, 42}

InitCommon ==
    /\ platform \in Platforms
    /\ cgroup2 \in (IF platform = "linux" THEN BOOLEAN ELSE {FALSE})
    /\ now = 0
    /\ cgroupPath = [i \in Sandboxes |-> ""]
    /\ jobHandle = [i \in Sandboxes |-> 0]
    /\ cgroupDir = NoCgroupDir
    /\ jobs = [h \in Handles |-> FreeJob]
    /\ staleUse = FALSE
    /\ hostRlimit = NoRlimit
    /\ self = 0
    /\ pc = "idle"
    /\ result = ZeroResult
    /\ retErr = ""
    /\ startTime = 0
    /\ parent = NoContext
    /\ ctx = NoContext
    /\ child = NoProcess
    /\ desc = NoDesc
    /\ lastCall = NoCall
    /\ cleanupErr = ""

\* The two sandboxes of the running model, each returned by New.
Init ==
    /\ InitCommon
    /\ input = [i \in Sandboxes |-> IF i = 1 THEN RunInput1 ELSE RunInput2]
    /\ constructed = [i \in Sandboxes |-> TRUE]
    /\ config = [i \in Sandboxes |-> newPlatformSandbox(platform, input[i])]
    /\ useCgroupV2 = [i \in Sandboxes |-> (platform = "linux" /\ cgroup2)]

\* The constructor model: New has yet to be called.
InitCfg ==
    /\ InitCommon
    /\ input \in [Sandboxes -> CfgInputs]
    /\ input[2] = NilInput
    /\ constructed = [i \in Sandboxes |-> FALSE]
    /\ config = [i \in Sandboxes |-> ZeroConfig]
    /\ useCgroupV2 = [i \in Sandboxes |-> FALSE]

\* ------------------------------------------------------------ constructor
\* New(config): newPlatformSandbox dispatches on the build target.  The
\* sandbox keeps the caller's pointer, so config[i] is also what the
\* caller's object holds from here on.
New(i) ==
    /\ self = 0
    /\ ~constructed[i]
    /\ constructed' = [constructed EXCEPT ![i] = TRUE]
    /\ config' = [config EXCEPT ![i] = newPlatformSandbox(platform, input[i])]
    /\ useCgroupV2' = [useCgroupV2 EXCEPT ![i] = (platform = "linux" /\ cgroup2)]
    /\ UNCHANGED <<platform, cgroup2, now, input, cgroupPath, jobHandle, osVars,
                   self, pc, retErr, runVars, lastCall, cleanupErr>>

\* ------------------------------------------------- clock and contexts
\* Deadlines a caller's context may carry, in seconds from the call; 0 is
\* a context without deadline (context.Background()).
CallerDeadlines == {0, 1}

\* The error a context reports once the clock reads t.
Expired(c, t) == c.active /\ c.err = "" /\ c.hasDeadline /\ t >= c.deadline

\* context.WithTimeout(parent, d) at time t: the earlier deadline wins and
\* a parent that is done makes the child done with the same error.
WithTimeout(p, d, t) ==
    LET own == t + d
        dl == IF p.hasDeadline /\ p.deadline < own THEN p.deadline ELSE own
    IN  [active |-> TRUE, hasDeadline |-> TRUE, deadline |-> dl,
         err |-> IF p.err # "" THEN p.err
                 ELSE IF t >= dl THEN "DeadlineExceeded" ELSE ""]

InRun == self # 0 /\ pc \in {"setup", "ctx", "start", "attach", "wait", "check", "classify"}

\* The child has been started and cmd.Wait has not returned.
Watching == self # 0 /\ pc \in {"attach", "wait"}

\* One second passes.  Timers fire: a context whose deadline is reached
\* reports DeadlineExceeded, and cmdCtx follows its parent.
Tick ==
    /\ InRun
    /\ \/ now < MaxTime
       \/ Watching /\ ctx.err = ""
    /\ now' = now + 1
    /\ LET perr == IF Expired(parent, now') THEN "DeadlineExceeded" ELSE parent.err
       IN  /\ parent' = [parent EXCEPT !.err = perr]
           /\ ctx' = [ctx EXCEPT !.err =
                        IF ~ctx.active \/ @ # "" THEN @
                        ELSE IF Expired(ctx, now') THEN "DeadlineExceeded"
                        ELSE perr]
    /\ UNCHANGED <<platform, cgroup2, sandboxVars, osVars, self, pc, retErr,
                   result, startTime, child, desc, lastCall, cleanupErr>>

\* The caller cancels the context it passed to Run.
CallerCancel ==
    /\ InRun
    /\ parent.err = ""
    /\ parent' = [parent EXCEPT !.err = "Canceled"]
    /\ ctx' = [ctx EXCEPT !.err = IF ctx.active /\ @ = "" THEN "Canceled" ELSE @]
    /\ UNCHANGED <<platform, cgroup2, now, sandboxVars, osVars, self, pc, retErr,
                   result, startTime, child, desc, lastCall, cleanupErr>>

\* ------------------------------------------------------------ processes
Unix == platform \in {"linux", "posix"}

\* A process leaves the cgroup when it terminates.
Leave(dir, who) == [dir EXCEPT !.procs = @ \ {who}]

\* The child exits on its own with status c; intime records that cmdCtx
\* was not done then.  A child created suspended and never resumed does
\* not run.
ChildExit(c) ==
    /\ Watching
    /\ child.state = "running" /\ ~child.suspended /\ ~child.sigkill
    /\ child' = [child EXCEPT !.state = "zombie", !.how = "exit", !.code = c,
                              !.killer = "self", !.intime = (ctx.err = "")]
    /\ cgroupDir' = Leave(cgroupDir, "child")
    /\ UNCHANGED <<platform, cgroup2, now, sandboxVars, jobs, staleUse, hostRlimit, self,
                   pc, retErr, result, startTime, parent, ctx, desc, lastCall, cleanupErr>>

\* The child forks a process, which stays in the child's process group and
\* cgroup and inherits its standard output.
ChildFork ==
    /\ Watching
    /\ child.state = "running" /\ ~child.suspended
    /\ desc.state = "none"
    /\ desc' = [state |-> "running", sigkill |-> FALSE,
                pipe |-> (config[self].Stdout = "writer")]
    /\ cgroupDir' = IF "child" \in cgroupDir.procs
                    THEN [cgroupDir EXCEPT !.procs = @ \cup {"desc"}]
                    ELSE cgroupDir
    /\ UNCHANGED <<platform, cgroup2, now, sandboxVars, jobs, staleUse, hostRlimit, self,
                   pc, retErr, result, startTime, parent, ctx, child, lastCall, cleanupErr>>

\* The kernel carries out a pending kill of the child.  SIGKILL ends it
\* with a signal status; TerminateProcess(h, 1) ends it with exit code 1.
ChildDie ==
    /\ child.state = "running" /\ child.sigkill
    /\ child' = [child EXCEPT !.state = "zombie", !.sigkill = FALSE,
                              !.how = IF Unix THEN "signal" ELSE "exit",
                              !.code = IF Unix THEN 9 ELSE 1]
    /\ cgroupDir' = Leave(cgroupDir, "child")
    /\ UNCHANGED <<platform, cgroup2, now, sandboxVars, jobs, staleUse, hostRlimit, self,
                   pc, retErr, result, startTime, parent, ctx, desc, lastCall, cleanupErr>>

\* The descendant exits on its own.
DescExit ==
    /\ desc.state = "running" /\ ~desc.sigkill
    /\ desc' = [desc EXCEPT !.state = "dead"]
    /\ cgroupDir' = Leave(cgroupDir, "desc")
    /\ UNCHANGED <<platform, cgroup2, now, sandboxVars, jobs, staleUse, hostRlimit, self,
                   pc, retErr, result, startTime, parent, ctx, child, lastCall, cleanupErr>>

\* The kernel carries out a pending kill of the descendant.
DescDie ==
    /\ desc.state = "running" /\ desc.sigkill
    /\ desc' = [desc EXCEPT !.state = "dead", !.sigkill = FALSE]
    /\ cgroupDir' = Leave(cgroupDir, "desc")
    /\ UNCHANGED <<platform, cgroup2, now, sandboxVars, jobs, staleUse, hostRlimit, self,
                   pc, retErr, result, startTime, parent, ctx, child, lastCall, cleanupErr>>

\* A descendant left behind by an earlier Run terminates.
OrphanExit ==
    /\ "orphan" \in cgroupDir.procs
    /\ cgroupDir' = Leave(cgroupDir, "orphan")
    /\ lastCall' = NoCall
    /\ UNCHANGED <<platform, cgroup2, now, sandboxVars, jobs, staleUse, hostRlimit, self,
                   pc, retErr, runVars, cleanupErr>>

\* Saturation of the oom_kill counter kept in memory.events.
MaxOomKills == 1

\* os/exec's watcher of cmdCtx: once the context is done it calls
\* cmd.Process.Kill(), which reaches the direct child only.
CtxKill ==
    /\ Watching
    /\ ctx.err # ""
    /\ child.state = "running" /\ ~child.sigkill
    /\ child' = [child EXCEPT !.sigkill = TRUE, !.killer = "ctx"]
    /\ UNCHANGED <<platform, cgroup2, now, sandboxVars, osVars, self, pc, retErr,
                   result, startTime, parent, ctx, desc, lastCall, cleanupErr>>

\* The kernel's out-of-memory killer ends a child that is in the cgroup
\* and counts the kill in memory.events.
OomKill ==
    /\ Watching
    /\ platform = "linux"
    /\ "child" \in cgroupDir.procs
    /\ child.state = "running" /\ ~child.sigkill
    /\ child' = [child EXCEPT !.sigkill = TRUE, !.killer = "oom"]
    /\ cgroupDir' = [cgroupDir EXCEPT !.oomKill =
                        IF @ < MaxOomKills THEN @ + 1 ELSE @]
    /\ UNCHANGED <<platform, cgroup2, now, sandboxVars, jobs, staleUse, hostRlimit, self,
                   pc, retErr, result, startTime, parent, ctx, desc, lastCall, cleanupErr>>

\* Some other process, or the kernel short of memory, sends SIGKILL to the
\* child; intime records that cmdCtx was not done then.
ExternalKill ==
    /\ Watching
    /\ platform = "posix"
    /\ child.state = "running" /\ ~child.sigkill
    /\ child' = [child EXCEPT !.sigkill = TRUE, !.killer = "external",
                              !.intime = (ctx.err = "")]
    /\ UNCHANGED <<platform, cgroup2, now, sandboxVars, osVars, self, pc, retErr,
                   result, startTime, parent, ctx, desc, lastCall, cleanupErr>>

\* ------------------------------------------------------------------- Run
\* result := &Result{}; startTime := time.Now().  The caller's context
\* is one without deadline or one with a deadline of its own.
RunBegin(i) ==
    /\ self = 0 /\ pc = "idle"
    /\ constructed[i]
    /\ self' = i
    /\ result' = ZeroResult
    /\ retErr' = ""
    /\ startTime' = now
    /\ \E d \in CallerDeadlines :
          parent' = [active |-> TRUE, hasDeadline |-> (d # 0),
                     deadline |-> now + d, err |-> ""]
    /\ pc' = IF platform = "posix" THEN "ctx" ELSE "setup"
    /\ UNCHANGED <<platform, cgroup2, now, sandboxVars, osVars, ctx, child, desc,
                   lastCall, cleanupErr>>

\* The limit files setupCgroup writes into the directory.
WriteLimits(c, dir) ==
    [dir EXCEPT
        !.exists = TRUE,
        !.memoryMax = IF c.MemoryLimit > 0 THEN c.MemoryLimit ELSE @,
        !.cpuMax = IF c.CPULimit > 0 /\ c.CPULimit < 100 THEN c.CPULimit * 1000 ELSE @,
        !.pidsMax = IF c.MaxProcesses > 0 THEN c.MaxProcesses ELSE @]

\* LinuxSandbox.setupCgroup.  os.MkdirAll succeeds on a directory that is
\* there; on one that is not it creates it or fails (no privilege).
setupCgroup(i, mkdirOk) ==
    IF useCgroupV2[i]
    THEN /\ cgroupPath' = [cgroupPath EXCEPT ![i] = CgroupName]
         /\ cgroupDir' = IF cgroupDir.exists \/ mkdirOk
                         THEN WriteLimits(config[i], cgroupDir)
                         ELSE cgroupDir
    ELSE UNCHANGED <<cgroupPath, cgroupDir>>

LinuxSetup ==
    /\ self # 0 /\ pc = "setup" /\ platform = "linux"
    /\ \E mkdirOk \in BOOLEAN : setupCgroup(self, mkdirOk)
    /\ pc' = "ctx"
    /\ UNCHANGED <<platform, cgroup2, now, input, constructed, config, useCgroupV2,
                   jobHandle, jobs, staleUse, hostRlimit, self, retErr, runVars, lastCall, cleanupErr>>

\* cmdCtx, cancel := context.WithTimeout(ctx, s.config.Timeout)
MakeCtx ==
    /\ self # 0 /\ pc = "ctx"
    /\ ctx' = WithTimeout(parent, config[self].Timeout, now)
    /\ pc' = "start"
    /\ UNCHANGED <<platform, cgroup2, now, sandboxVars, osVars, self, retErr,
                   result, startTime, parent, child, desc, lastCall, cleanupErr>>

\* cmd.Start() fails: the command cannot be started, or cmdCtx is done.
StartFail ==
    /\ self # 0 /\ pc = "start"
    /\ result' = [result EXCEPT !.Error = "failed to start process"]
    /\ retErr' = "failed to start process"
    /\ pc' = "returned"
    /\ UNCHANGED <<platform, cgroup2, now, sandboxVars, osVars, self, startTime,
                   parent, ctx, child, desc, lastCall, cleanupErr>>

\* StartOk whose Linux body goes on to cmd.Wait() without the write to
\* cgroup.procs.
StartOkSkipsAttach ==
    /\ self # 0 /\ pc = "start"
    /\ ctx.err = ""
    /\ child' = [NoProcess EXCEPT !.state = "running",
                                  !.suspended = (platform = "windows")]
    /\ pc' = IF platform = "linux" THEN "wait" ELSE "attach"
    /\ UNCHANGED <<platform, cgroup2, now, sandboxVars, osVars, self, retErr,
                   result, startTime, parent, ctx, desc, lastCall, cleanupErr>>

\* cmd.Start() succeeds.  The Windows body creates the child suspended.
StartOk ==
    /\ self # 0 /\ pc = "start"
    /\ ctx.err = ""
    /\ child' = [NoProcess EXCEPT !.state = "running",
                                  !.suspended = (platform = "windows")]
    /\ pc' = "attach"
    /\ UNCHANGED <<platform, cgroup2, now, sandboxVars, osVars, self, retErr,
                   result, startTime, parent, ctx, desc, lastCall, cleanupErr>>

\* Add process to cgroup: the write to cgroup.procs takes effect when the
\* directory is there and the process still runs; its error is dropped.
LinuxAttach ==
    /\ self # 0 /\ pc = "attach" /\ platform = "linux"
    /\ cgroupDir' =
          IF cgroupPath[self] # "" /\ useCgroupV2[self]
             /\ cgroupDir.exists /\ child.state = "running"
          THEN [cgroupDir EXCEPT !.procs = @ \cup {"child"}]
          ELSE cgroupDir
    /\ pc' = "wait"
    /\ UNCHANGED <<platform, cgroup2, now, sandboxVars, jobs, staleUse, hostRlimit, self,
                   retErr, runVars, lastCall, cleanupErr>>

\* The kernel hands out the lowest handle value that designates no job
\* (0 when there is none): values of closed handles are used again.
LowestFree(t) ==
    IF \A h \in Handles : t[h].open THEN 0
    ELSE CHOOSE h \in Handles : ~t[h].open /\ \A g \in Handles : g < h => t[g].open

\* CreateJobFail without Run's return: the body goes on to the context.
CreateJobFailContinues ==
    /\ self # 0 /\ pc = "setup" /\ platform = "windows"
    /\ result' = [result EXCEPT !.Error = "failed to create job object"]
    /\ retErr' = "failed to create job object"
    /\ pc' = "ctx"
    /\ UNCHANGED <<platform, cgroup2, now, sandboxVars, osVars, self, startTime,
                   parent, ctx, child, desc, lastCall, cleanupErr>>

\* WindowsSandbox.createJobObject: CreateJobObjectW returns a handle value
\* that designates no open job, or fails; s.jobHandle takes the value; if
\* SetInformationJobObject fails the handle is closed and s.jobHandle
\* keeps the value.
CreateJobFail ==
    /\ self # 0 /\ pc = "setup" /\ platform = "windows"
    /\ result' = [result EXCEPT !.Error = "failed to create job object"]
    /\ retErr' = "failed to create job object"
    /\ pc' = "returned"
    /\ UNCHANGED <<platform, cgroup2, now, sandboxVars, osVars, self, startTime,
                   parent, ctx, child, desc, lastCall, cleanupErr>>

createJobObject(i, h, setOk) ==
    /\ h = LowestFree(jobs)
    /\ jobHandle' = [jobHandle EXCEPT ![i] = h]
    /\ jobs' = [jobs EXCEPT ![h] = [open |-> setOk,
                                     owner |-> IF setOk THEN i ELSE 0]]

WindowsSetup ==
    /\ self # 0 /\ pc = "setup" /\ platform = "windows"
    /\ \E h \in Handles, setOk \in BOOLEAN :
          /\ createJobObject(self, h, setOk)
          /\ IF setOk
             THEN /\ pc' = "ctx"
                  /\ UNCHANGED <<result, retErr>>
             ELSE /\ result' = [result EXCEPT !.Error = "failed to set job object limits"]
                  /\ retErr' = "failed to set job object limits"
                  /\ pc' = "returned"
    /\ UNCHANGED <<platform, cgroup2, now, input, constructed, config, useCgroupV2,
                   cgroupPath, cgroupDir, staleUse, hostRlimit, self, startTime,
                   parent, ctx, child, desc, lastCall, cleanupErr>>

\* AssignProcessToJobObject(s.jobHandle, pid).  The call is given the
\* process identifier where the kernel expects a process handle, so it
\* succeeds or fails; on failure the child is killed and Run returns.
WindowsAssign ==
    /\ self # 0 /\ pc = "attach" /\ platform = "windows"
    /\ \E ok \in BOOLEAN :
          IF ok
          THEN /\ child' = [child EXCEPT !.job = jobHandle[self]]
               /\ pc' = "wait"
               /\ UNCHANGED <<result, retErr>>
          ELSE /\ child' = IF child.state = "running"
                           THEN [child EXCEPT !.sigkill = TRUE, !.killer = "assign"]
                           ELSE child
               /\ result' = [result EXCEPT !.Error = "failed to assign process to job"]
               /\ retErr' = "failed to assign process to job"
               /\ pc' = "returned"
    /\ UNCHANGED <<platform, cgroup2, now, sandboxVars, osVars, self,
                   startTime, parent, ctx, desc, lastCall, cleanupErr>>

\* syscall.Setrlimit acts on the calling process.  Lowering a limit
\* succeeds; raising it above the hard limit needs privilege.
Setrlimit(cur, new, priv) == IF cur = 0 \/ new <= cur \/ priv THEN new ELSE cur

PosixSetrlimit ==
    /\ self # 0 /\ pc = "attach" /\ platform = "posix"
    /\ \E priv \in BOOLEAN :
          hostRlimit' =
             [mem |-> IF config[self].MemoryLimit > 0
                      THEN Setrlimit(hostRlimit.mem, config[self].MemoryLimit, priv)
                      ELSE hostRlimit.mem,
              nproc |-> IF config[self].MaxProcesses > 0
                        THEN Setrlimit(hostRlimit.nproc, config[self].MaxProcesses, priv)
                        ELSE hostRlimit.nproc]
    /\ pc' = "wait"
    /\ UNCHANGED <<platform, cgroup2, now, sandboxVars, cgroupDir, jobs, staleUse,
                   self, retErr, runVars, lastCall, cleanupErr>>

\* cmd.Wait() returns once the child has terminated and, when Stdout is a
\* writer, the pipe feeding it has no writer left; the child is reaped.
\* result.ExecutionTime = time.Since(startTime).
PipeOpen == config[self].Stdout = "writer" /\ desc.state = "running" /\ desc.pipe

Wait ==
    /\ self # 0 /\ pc = "wait"
    /\ child.state = "zombie"
    /\ ~PipeOpen
    /\ child' = [child EXCEPT !.state = "reaped"]
    /\ result' = [result EXCEPT !.ExecutionTime = now - startTime]
    /\ pc' = "check"
    /\ UNCHANGED <<platform, cgroup2, now, sandboxVars, osVars, self, retErr,
                   startTime, parent, ctx, desc, lastCall, cleanupErr>>

\* syscall.Kill(-pid, SIGKILL): the signal is posted to every process of
\* the child's process group; a reaped child is no longer one of them.
KillGroup(d) == IF d.state = "running" THEN [d EXCEPT !.sigkill = TRUE] ELSE d

\* if cmdCtx.Err() == context.DeadlineExceeded { ... }, read after Wait.
\* The Linux and fallback bodies kill the process group; the Windows body
\* sends nothing.
CheckTimeout ==
    /\ self # 0 /\ pc = "check"
    /\ IF ctx.err = "DeadlineExceeded"
       THEN /\ result' = [result EXCEPT !.TimedOut = TRUE,
                                        !.Error = "execution timeout exceeded"]
            /\ desc' = IF Unix THEN KillGroup(desc) ELSE desc
       ELSE UNCHANGED <<result, desc>>
    /\ pc' = "classify"
    /\ UNCHANGED <<platform, cgroup2, now, sandboxVars, osVars, self, retErr,
                   startTime, parent, ctx, child, lastCall, cleanupErr>>

\* syscall.WaitStatus.ExitStatus() and os.ProcessState.ExitCode(): the
\* exit status of a process that exited, -1 of one a signal ended.
ExitStatus(p) == IF p.how = "exit" THEN p.code ELSE -1

\* cmd.Wait's error is an *exec.ExitError exactly when the process did
\* not exit with status 0.
IsExitError(p) == ~(p.how = "exit" /\ p.code = 0)

\* The lines of the cgroup's memory.events file.
MemoryEvents(dir) ==
    <<<<"low", 0>>, <<"high", 0>>, <<"max", dir.oomKill>>, <<"oom", dir.oomKill>>,
      <<"oom_kill", dir.oomKill>>>>

\* strings.Contains(string(data), "oom_kill")
ContainsOomKill(events) == \E k \in 1..Len(events) : events[k][1] = "oom_kill"

LinuxExitCode(p) == IF IsExitError(p) THEN ExitStatus(p) ELSE 0

\* LinuxMemoryExceeded without the error check of os.ReadFile.
LinuxMemoryExceededNoDir(i) ==
    /\ cgroupPath[i] # "" /\ useCgroupV2[i]
    /\ ContainsOomKill(MemoryEvents(cgroupDir))

LinuxMemoryExceeded(i) ==
    /\ cgroupPath[i] # "" /\ useCgroupV2[i]
    /\ cgroupDir.exists
    /\ ContainsOomKill(MemoryEvents(cgroupDir))

\* ws.Signaled() && ws.Signal() == syscall.SIGKILL, unless TimedOut.
PosixMemoryExceeded(p, r) == p.how = "signal" /\ p.code = 9 /\ ~r.TimedOut

\* "Get exit code", the memory check of the body, and return result, nil.
Classify ==
    /\ self # 0 /\ pc = "classify"
    /\ result' =
          CASE platform = "linux" ->
                  [result EXCEPT !.ExitCode = LinuxExitCode(child),
                                 !.MemoryExceeded = LinuxMemoryExceeded(self)]
            [] platform = "posix" ->
                  [result EXCEPT !.ExitCode = ExitStatus(child),
                                 !.MemoryExceeded = PosixMemoryExceeded(child, result)]
            [] OTHER -> [result EXCEPT !.ExitCode = ExitStatus(child)]
    /\ retErr' = ""
    /\ pc' = "returned"
    /\ UNCHANGED <<platform, cgroup2, now, sandboxVars, osVars, self, startTime,
                   parent, ctx, child, desc, lastCall, cleanupErr>>

\* The caller takes the outcome.  A descendant that still runs stays
\* behind in the cgroup; the clock is read from the next call on.
Return ==
    /\ self # 0 /\ pc = "returned"
    /\ lastCall' = [op |-> "Run", sb |-> self, rep |-> FALSE]
    /\ cgroupDir' =
          [cgroupDir EXCEPT !.procs =
              IF "desc" \in @ THEN (@ \ {"child", "desc"}) \cup {"orphan"}
              ELSE @ \ {"child"}]
    /\ self' = 0
    /\ pc' = "idle"
    /\ now' = 0
    /\ result' = ZeroResult
    /\ retErr' = ""
    /\ startTime' = 0
    /\ parent' = NoContext
    /\ ctx' = NoContext
    /\ child' = NoProcess
    /\ desc' = NoDesc
    /\ UNCHANGED <<platform, cgroup2, sandboxVars, jobs, staleUse, hostRlimit, cleanupErr>>

\* --------------------------------------------------------------- Cleanup
\* os.RemoveAll(s.cgroupPath): the directory goes when it is there and no
\* process is left in it; the error is dropped.
RemoveAll(dir) == IF dir.exists /\ dir.procs = {} THEN NoCgroupDir ELSE dir

\* TerminateJobObject and CloseHandle on a handle value.
CloseHandle(j) == FreeJob

LinuxCleanup(i) ==
    /\ cgroupDir' = IF cgroupPath[i] # "" THEN RemoveAll(cgroupDir) ELSE cgroupDir
    /\ UNCHANGED <<jobs, staleUse, jobHandle>>

\* WindowsCleanup without s.jobHandle = 0.
WindowsCleanupKeepsHandle(i) ==
    /\ IF jobHandle[i] # 0
       THEN /\ jobs' = [jobs EXCEPT ![jobHandle[i]] = CloseHandle(@)]
            /\ staleUse' = (staleUse \/ ~jobs[jobHandle[i]].open)
            /\ UNCHANGED jobHandle
       ELSE UNCHANGED <<jobs, staleUse, jobHandle>>
    /\ UNCHANGED cgroupDir

WindowsCleanup(i) ==
    /\ IF jobHandle[i] # 0
       THEN /\ jobs' = [jobs EXCEPT ![jobHandle[i]] = CloseHandle(@)]
            /\ staleUse' = (staleUse \/ ~jobs[jobHandle[i]].open)
            /\ jobHandle' = [jobHandle EXCEPT ![i] = 0]
       ELSE UNCHANGED <<jobs, staleUse, jobHandle>>
    /\ UNCHANGED cgroupDir

DefaultCleanup(i) == UNCHANGED <<cgroupDir, jobs, staleUse, jobHandle>>

\* What Cleanup returns.
CleanupError(i) == ""

Cleanup(i) ==
    /\ self = 0 /\ pc = "idle"
    /\ constructed[i]
    /\ CASE platform = "linux" -> LinuxCleanup(i)
         [] platform = "windows" -> WindowsCleanup(i)
         [] OTHER -> DefaultCleanup(i)
    /\ lastCall' = [op |-> "Cleanup", sb |-> i,
                    rep |-> (lastCall.op = "Cleanup" /\ lastCall.sb = i)]
    /\ cleanupErr' = CleanupError(i)
    /\ UNCHANGED <<platform, cgroup2, now, input, constructed, config, useCgroupV2,
                   cgroupPath, hostRlimit, self, pc, retErr, runVars>>

\* ------------------------------------------------------------------ Next
Next ==
    \/ \E i \in Sandboxes : RunBegin(i)
    \/ LinuxSetup
    \/ CreateJobFail
    \/ WindowsSetup
    \/ MakeCtx
    \/ StartFail
    \/ StartOk
    \/ LinuxAttach
    \/ WindowsAssign
    \/ PosixSetrlimit
    \/ Wait
    \/ CheckTimeout
    \/ Classify
    \/ Return
    \/ \E i \in Sandboxes : Cleanup(i)
    \/ Tick
    \/ CallerCancel
    \/ \E c \in ExitCodes : ChildExit(c)
    \/ ChildFork
    \/ ChildDie
    \/ DescExit
    \/ DescDie
    \/ OrphanExit
    \/ CtxKill
    \/ OomKill
    \/ ExternalKill

Spec == Init /\ [][Next]_vars

NextCfg == \E i \in Sandboxes : New(i)

SpecCfg == InitCfg /\ [][NextCfg]_vars

\* The goroutine that runs Run: one of these steps is enabled at a time.
RunStep ==
    \/ LinuxSetup \/ CreateJobFail \/ WindowsSetup \/ MakeCtx \/ StartFail
    \/ StartOk \/ LinuxAttach \/ WindowsAssign \/ PosixSetrlimit \/ Wait
    \/ CheckTimeout \/ Classify \/ Return

\* Run's goroutine, the clock, os/exec's watcher and the kernel's signal
\* delivery all make progress.  Nothing obliges a process to exit on its
\* own, a caller to cancel, or the kernel to find memory short.
FairSpec ==
    /\ Init /\ [][Next]_vars
    /\ WF_vars(RunStep) /\ WF_vars(Tick) /\ WF_vars(CtxKill)
    /\ WF_vars(ChildDie) /\ WF_vars(DescDie)

\* ======================================================================
\* Claims
\* ======================================================================

\* The range the data model gives to a resolved configuration.
InRange(c) ==
    /\ c.CPULimit \in 1..100
    /\ c.MemoryLimit > 0
    /\ c.Timeout > 0
    /\ c.MaxProcesses > 0

\* A specification that is nil or has every field zero or in range.
Admissible(in) ==
    \/ in.nil
    \/ /\ in.cfg.CPULimit \in 0..100
       /\ in.cfg.MemoryLimit >= 0
       /\ in.cfg.Timeout >= 0
       /\ in.cfg.MaxProcesses >= 0

\* C1 as stated: for every input configuration, negative and out-of-range
\* fields included, the configuration a sandbox holds after construction
\* has CPU limit in 1..100, memory limit > 0, timeout > 0 and max
\* processes > 0.
C1_AnyInputInRange ==
    \A i \in Sandboxes : constructed[i] => InRange(config[i])

\* C1 amended: for every input configuration that is nil or whose fields
\* are each zero or in range, the configuration a sandbox holds after
\* construction has CPU limit in 1..100, memory limit > 0, timeout > 0 and
\* max processes > 0.
C1_AdmissibleInputInRange ==
    \A i \in Sandboxes :
        constructed[i] /\ Admissible(input[i]) => InRange(config[i])

\* A sandbox constructed from a specification with zero fields holds the
\* defaults in their place.
C1_Witness ==
    \E i \in Sandboxes :
        /\ constructed[i] /\ ~input[i].nil
        /\ input[i].cfg.CPULimit = 0 /\ config[i].CPULimit = DefaultCPULimit
        /\ input[i].cfg.Timeout = 0 /\ config[i].Timeout = DefaultTimeout
        /\ input[i].cfg.MemoryLimit = 1 /\ config[i].MemoryLimit = 1

\* Run has returned and the caller holds result and retErr.
Returned == self # 0 /\ pc = "returned"

\* The child ended by exiting on its own while cmdCtx was not done, and
\* the caller never cancelled.
ExitedInTime ==
    /\ child.state = "reaped"
    /\ child.killer = "self" /\ child.intime
    /\ parent.err # "Canceled"

\* C2: if the child terminates normally on its own with exit status c
\* before the deadline expires and without the caller cancelling, Run
\* returns exit code c and timed-out = false, whatever the interleaving of
\* the child's exit, the deadline timer and Run's own steps.
C2_ExitInTimeNotTimedOut ==
    Returned /\ ExitedInTime =>
        result.ExitCode = child.code /\ ~result.TimedOut

\* C3: whenever Run returns an outcome with timed-out = true, the elapsed
\* time of the outcome is at least the configured timeout, for every
\* caller context and every ordering of child exit and deadline expiry.
C3_TimedOutAfterTimeout ==
    Returned /\ result.TimedOut =>
        result.ExecutionTime >= config[self].Timeout

\* Run waits for a child that did not exit on its own: it ran until the
\* deadline expired and os/exec's watcher killed it for that.
HungUntilDeadline ==
    /\ self # 0 /\ pc = "wait"
    /\ ctx.err = "DeadlineExceeded"
    /\ child.state = "running" /\ child.killer = "ctx"

\* C4: if the child never exits on its own, Run eventually returns with
\* timed-out = true once the configured timeout has expired, also when the
\* child has spawned descendants that inherited the bound output streams.
C4_HangingChildTimesOut ==
    HungUntilDeadline ~> (Returned /\ result.TimedOut)

\* C5: in the state where Run returns with timed-out = true, neither the
\* child nor any descendant in its process group is still running.
C5_TreeGoneOnTimeout ==
    Returned /\ result.TimedOut =>
        child.state # "running" /\ desc.state # "running"

\* C6: if the caller cancels the context while the child is running, the
\* sandbox kills every process of the child's process group before Run
\* returns: none of them still runs without a kill posted to it.
C6_CancelKillsTree ==
    Returned /\ ctx.err = "Canceled" /\ child.killer = "ctx" =>
        /\ child.state # "running"
        /\ desc.state = "running" => desc.sigkill

\* The live enforcement handles sandbox i created: the job handles it
\* opened, or the cgroup directory its path names.
LiveJobs(i) == {h \in Handles : jobs[h].open /\ jobs[h].owner = i}

\* C7: in every reachable state of any sequence of Run and Cleanup calls
\* on one sandbox, at most one live enforcement handle created by it
\* exists.
C7_OneLiveHandle ==
    \A i \in Sandboxes : Cardinality(LiveJobs(i)) <= 1

\* C8: Cleanup never returns an error, in any position of a sequence of
\* completed Run calls, and a Cleanup that directly follows a Cleanup of
\* the same sandbox changes neither the sandboxes nor the cgroup
\* directory, the job table or the host limits.
C8_CleanupIdempotent ==
    /\ [](cleanupErr = "")
    /\ [][\A i \in Sandboxes :
            lastCall.op = "Cleanup" /\ lastCall.sb = i /\ Cleanup(i)
               => UNCHANGED <<sandboxVars, osVars>>]_vars

\* Cleanup has directly followed a Cleanup of a sandbox whose Run had
\* set up its cgroup: the directory the first removed is still gone.
C8_Witness ==
    /\ lastCall.op = "Cleanup" /\ lastCall.rep
    /\ cleanupErr = ""
    /\ cgroupPath[lastCall.sb] # "" /\ ~cgroupDir.exists

\* C9: enforcement handles of distinct sandboxes are disjoint: two
\* sandboxes of one host process never hold the same cgroup directory or
\* the same open job handle.
C9_DisjointHandles ==
    \A i, j \in Sandboxes :
        i # j =>
           /\ cgroupPath[i] # "" /\ cgroupDir.exists => cgroupPath[j] # cgroupPath[i]
           /\ jobHandle[i] # 0 /\ jobs[jobHandle[i]].open => jobHandle[j] # jobHandle[i]

\* The errors of failing to spawn the child or to set up the job object.
SetupErrors ==
    {"failed to start process", "failed to create job object",
     "failed to set job object limits", "failed to assign process to job"}

\* C10: an error, returned or in the outcome's error field, is present
\* only when spawning the child or setting up the job object failed; a
\* timeout or a memory exceedance leaves both empty.
C10_ErrorOnlyOnSetupFailure ==
    Returned =>
        /\ retErr # "" => retErr \in SetupErrors
        /\ result.Error # "" => result.Error \in SetupErrors
        /\ result.TimedOut \/ result.MemoryExceeded =>
              retErr = "" /\ result.Error = ""

\* Run has returned past its classification: the child was spawned,
\* waited for and reaped.
Classified == Returned /\ child.state = "reaped"

\* The exit statuses a program can report as its own.
OwnExitCodes == 0..255

\* C11: the outcome tells a program's own exit from a forced termination:
\* a child that exited on its own yields its exit status, a child a signal
\* ended yields a non-zero indicator, and when the sandbox killed the
\* child for the deadline or a cancellation the exit code is a value the
\* program could have reported itself only if timed-out or memory-exceeded
\* marks the forced termination.
C11_ForcedTerminationTold ==
    Classified =>
        /\ child.killer = "self" => result.ExitCode = child.code
        /\ child.how = "signal" => result.ExitCode # 0
        /\ child.killer = "ctx" /\ result.ExitCode \in OwnExitCodes =>
              result.TimedOut \/ result.MemoryExceeded

\* C12: constructing a sandbox from a caller's limit specification leaves
\* every field of the caller's object as it was, and the configuration a
\* Run works with does not change while it runs.
C12_ResolveWithoutSideEffect ==
    /\ [](\A i \in Sandboxes :
             constructed[i] /\ ~input[i].nil => config[i] = input[i].cfg)
    /\ [][InRun => config' = config]_vars

\* The two ways createJobObject fails.
JobErrors == {"failed to create job object", "failed to set job object limits"}

\* C13: on Windows, when creating or configuring the job object fails,
\* Run returns a non-nil error together with an outcome and no child is
\* spawned in that Run: Run leaves its set-up either holding an open job
\* of its own or returning the error, the outcome carrying it, without a
\* child.
C13_JobFailureAborts ==
    /\ [](Returned /\ retErr \in JobErrors =>
             child = NoProcess /\ result.Error = retErr)
    /\ [][self # 0 /\ platform = "windows" /\ pc = "setup" /\ pc' # "setup" =>
            \/ /\ pc' = "ctx" /\ retErr' = ""
               /\ jobHandle'[self] # 0
               /\ jobs'[jobHandle'[self]].open
               /\ jobs'[jobHandle'[self]].owner = self
            \/ /\ pc' = "returned" /\ retErr' \in JobErrors
               /\ result'.Error = retErr'
               /\ child' = NoProcess]_vars

\* Run has returned the error of a job object that could not be
\* configured; no child was spawned.
C13_Witness ==
    /\ Returned /\ platform = "windows"
    /\ retErr = "failed to set job object limits"
    /\ result.Error = retErr
    /\ child = NoProcess

\* A Linux Run past its set-up without a cgroup: cgroup v2 is not mounted,
\* or the directory could not be created.
Degraded ==
    /\ platform = "linux"
    /\ self # 0 /\ pc \notin {"idle", "setup"}
    /\ ~useCgroupV2[self] \/ ~cgroupDir.exists

\* C14: on Linux, when cgroup v2 is unavailable or the cgroup directory
\* cannot be created, Run goes on in degraded mode: the set-up never makes
\* Run return, the child is spawned and its outcome returned with a nil
\* error, no limit file is written, the child is not attached, no
\* out-of-memory counter is read, and memory-exceeded is false.
C14_DegradedMode ==
    /\ [](Degraded => cgroupDir = NoCgroupDir)
    /\ [](Degraded /\ Returned =>
             /\ retErr \in {"", "failed to start process"}
             /\ ~result.MemoryExceeded)
    /\ [](Degraded /\ Classified => retErr = "")
    /\ [][self # 0 /\ platform = "linux" /\ pc = "setup" /\ pc' # "setup" =>
             pc' = "ctx" /\ retErr' = "" /\ result' = ZeroResult]_vars

\* A Run whose cgroup directory could not be created has returned the
\* outcome of its child.
C14_Witness ==
    /\ Degraded /\ Classified
    /\ useCgroupV2[self] /\ cgroupPath[self] # ""
    /\ child.killer = "self" /\ result.ExitCode = 42
    /\ ~result.MemoryExceeded /\ retErr = ""

\* C15: on Linux the cgroup directory a Run created is still there when
\* Run returns, only Cleanup removes it, and after a Cleanup that follows
\* any number of Runs of the sandbox no cgroup directory it created is
\* left.
C15_CleanupRemovesCgroup ==
    /\ [][cgroupDir.exists /\ ~cgroupDir'.exists =>
             self = 0 /\ lastCall'.op = "Cleanup"]_vars
    /\ [](/\ platform = "linux" /\ self = 0
          /\ lastCall.op = "Cleanup" /\ cgroupPath[lastCall.sb] # ""
          => ~cgroupDir.exists)

\* A Linux Run whose cgroup is set up.
UsableCgroup ==
    /\ platform = "linux"
    /\ self # 0 /\ useCgroupV2[self] /\ cgroupDir.exists

\* C16: on Linux with a usable cgroup, memory-exceeded is true exactly
\* when the oom_kill counter of memory.events, read after the wait, is
\* above zero: a child the out-of-memory killer did not end yields false,
\* and one it ended yields true with a non-zero exit indicator.
C16_MemoryExceededIffOomKill ==
    Classified /\ UsableCgroup =>
        /\ result.MemoryExceeded <=> cgroupDir.oomKill > 0
        /\ child.killer # "oom" => ~result.MemoryExceeded
        /\ child.killer = "oom" => result.MemoryExceeded /\ result.ExitCode # 0

\* The value a field resolves to: its default exactly when it is zero.
Resolved(v, d) == IF v = 0 THEN d ELSE v

\* C17: the resolver replaces each of CPU limit, memory limit, timeout
\* and max processes by its default (100, 512 MiB, 30 s, 50) exactly when
\* the field is zero or the specification is nil, passes every other
\* value, negative ones included, through unchanged, and the three
\* platform constructors resolve alike.
C17_DefaultExactlyWhenZero ==
    \A i \in Sandboxes :
        constructed[i] =>
            LET in == IF input[i].nil THEN ZeroConfig ELSE input[i].cfg
            IN  /\ config[i].CPULimit = Resolved(in.CPULimit, 100)
                /\ config[i].MemoryLimit = Resolved(in.MemoryLimit, 512 * 1024 * 1024)
                /\ config[i].Timeout = Resolved(in.Timeout, 30)
                /\ config[i].MaxProcesses = Resolved(in.MaxProcesses, 50)
                /\ config[i].Stdout = in.Stdout
                /\ NewLinuxSandbox(input[i]) = NewWindowsSandbox(input[i])
                /\ NewWindowsSandbox(input[i]) = NewDefaultSandbox(input[i])

\* A sandbox constructed from a specification with a negative CPU limit
\* and no timeout holds the negative limit and the default timeout.
C17_Witness ==
    \E i \in Sandboxes :
        /\ constructed[i] /\ ~input[i].nil
        /\ input[i].cfg.CPULimit = -1 /\ config[i].CPULimit = -1
        /\ input[i].cfg.MaxProcesses = -1 /\ config[i].MaxProcesses = -1
        /\ input[i].cfg.Timeout = 0 /\ config[i].Timeout = 30

\* C18: the elapsed time of the outcome runs from the spawn of the child
\* to the end of enforcement: the start instant is the instant of the
\* spawn, not one before the set-up, and the end instant is not taken
\* before a forced termination of the process tree has been issued.
C18_ElapsedFromSpawnToEnforcementEnd ==
    /\ [][self # 0 /\ pc = "start" /\ pc' = "attach" => startTime = now]_vars
    /\ [][self # 0 /\ pc = "check" /\ pc' = "classify" /\ result'.TimedOut =>
             result'.ExecutionTime >= now - startTime]_vars

\* The order of the positions of a Linux Run.
LinuxOrder ==
    {<<"idle", "setup">>, <<"setup", "ctx">>, <<"ctx", "start">>,
     <<"start", "attach">>, <<"start", "returned">>, <<"attach", "wait">>,
     <<"wait", "check">>, <<"check", "classify">>, <<"classify", "returned">>,
     <<"returned", "idle">>}

\* The limit files of the cgroup directory.
LimitFiles(dir) == <<dir.memoryMax, dir.cpuMax, dir.pidsMax>>

\* C19: a Linux Run passes through Configured, Attached, Exited and
\* Classified in this order: the limit files are written before the child
\* is spawned, the child's process identifier is written to cgroup.procs
\* after the spawn and before the wait begins, memory-exceeded is decided
\* only after the wait has completed, and the directory is removed only
\* through Cleanup.
C19_LinuxStepOrder ==
    /\ [][platform = "linux" /\ pc' # pc => <<pc, pc'>> \in LinuxOrder]_vars
    /\ [][LimitFiles(cgroupDir)' # LimitFiles(cgroupDir) =>
             \/ self # 0 /\ pc = "setup" /\ child = NoProcess /\ pc' = "ctx"
             \/ self = 0 /\ lastCall'.op = "Cleanup"]_vars
    /\ [][("child" \in cgroupDir'.procs) /\ ("child" \notin cgroupDir.procs) =>
             /\ self # 0 /\ pc = "attach" /\ pc' = "wait"
             /\ child.state = "running"]_vars
    /\ [][result'.MemoryExceeded /\ ~result.MemoryExceeded =>
             self # 0 /\ pc = "classify" /\ child.state = "reaped"]_vars
    /\ [][cgroupDir.exists /\ ~cgroupDir'.exists =>
             self = 0 /\ pc = "idle" /\ lastCall'.op = "Cleanup"]_vars

\* A Linux Run has gone through all steps: limits written, child attached
\* and ended by the out-of-memory killer, outcome classified.
C19_Witness ==
    /\ Classified /\ UsableCgroup
    /\ cgroupDir.memoryMax = config[self].MemoryLimit
    /\ child.killer = "oom" /\ cgroupDir.oomKill > 0
    /\ result.MemoryExceeded

\* C20: on Linux with a usable cgroup, once the cgroup is configured the
\* CPU limit file holds the quota p * 1000 (per period of 100000) for
\* every resolved CPU limit p in 1..100, p = 100 included.
C20_CpuQuotaWritten ==
    UsableCgroup /\ pc \notin {"idle", "setup"}
        /\ config[self].CPULimit \in 1..100 =>
        cgroupDir.cpuMax = config[self].CPULimit * 1000

\* A Run of the fallback body has returned past its classification.
PosixClassified == Classified /\ platform = "posix"

\* SIGKILL ended the child.
Sigkilled(p) == p.how = "signal" /\ p.code = 9

\* The sandbox killed the child because the deadline had expired.
TimeoutKill == child.killer = "ctx" /\ ctx.err = "DeadlineExceeded"

\* C21: on the fallback body memory-exceeded is true exactly when SIGKILL
\* ended the child and that was not the sandbox's own timeout kill;
\* timed-out and memory-exceeded are never both true; and a child killed
\* from outside before the deadline is classified memory-exceeded
\* whenever the deadline expires relative to the classification.
C21_PosixMemoryExceeded ==
    PosixClassified =>
        /\ result.MemoryExceeded <=> (Sigkilled(child) /\ ~TimeoutKill)
        /\ ~(result.TimedOut /\ result.MemoryExceeded)
        /\ child.killer = "external" /\ child.intime => result.MemoryExceeded

\* Cleanup of sandbox i has just returned.
Cleaned(i) == self = 0 /\ lastCall.op = "Cleanup" /\ lastCall.sb = i

\* C22: on Windows, after Cleanup has returned, no job object the sandbox
\* created is left open, so that every process assigned to one has been
\* terminated with it, and the sandbox holds no handle.
C22_CleanupClosesJobs ==
    \A i \in Sandboxes :
        platform = "windows" /\ Cleaned(i) =>
            jobHandle[i] = 0 /\ LiveJobs(i) = {}

\* C23: on Linux memory-exceeded reflects only an out-of-memory kill of
\* the Run's own child: in a Run that directly follows a Run of the same
\* sandbox, without Cleanup between them, a kill counted during the
\* earlier Run does not make the outcome report memory-exceeded.
C23_OomKillOfOwnChildOnly ==
    /\ Classified /\ UsableCgroup
    /\ lastCall.op = "Run" /\ lastCall.sb = self
    /\ cgroupDir.oomKill > 0 /\ child.killer # "oom"
    => ~result.MemoryExceeded

\* Run has sent SIGKILL to the process group -pid.
GroupKillIssued ==
    /\ Unix
    /\ self # 0 /\ pc \in {"classify", "returned"}
    /\ result.TimedOut

\* C24: the process-group kill goes only to the group of a child that is
\* not yet reaped: none is issued after the wait for the child has
\* completed, and none for a child that exited on its own.
C24_GroupKillBeforeReap ==
    GroupKillIssued => child.state # "reaped" /\ child.killer # "self"

\* C25: on the fallback body Run leaves the resource limits of the host
\* process as they were before the first Run.
C25_HostLimitsUnchanged ==
    platform = "posix" => hostRlimit = NoRlimit

\* C26: on the fallback body a Run whose child the sandbox killed itself,
\* for the deadline or for the caller's cancellation, never reports
\* memory-exceeded.
C26_OwnKillNotMemoryExceeded ==
    PosixClassified /\ child.killer = "ctx" => ~result.MemoryExceeded

\* C27: on Windows no job handle is closed or terminated after it was
\* closed: in every sequence of Run and Cleanup, a Run whose job object
\* could not be configured included, the kernel is never given a handle
\* value that designates no open job.
C27_NoDoubleClose ==
    platform = "windows" => ~staleUse

====
